---------------------------- MODULE Spec2Model ----------------------------
(***************************************************************************)
(* A model of construct_email.py: the star rating (get_stars), the daily   *)
(* summary (generate_daily_summary), the HTML renderer (render_email) and  *)
(* the mailer (send_email).                                                *)
(*                                                                         *)
(* The four functions share no state, so each is explored by its own       *)
(* specification (SpecMail, SpecRender, SpecStars, SpecParse); the         *)
(* variables of the other three stay at their idle values.                 *)
(***************************************************************************)
EXTENDS Integers, Sequences, FiniteSets, TLC

VARIABLES
    \* ---- send_email ----
    sender,        \* argument sender
    receiver,      \* argument receiver
    smtp_port,     \* argument smtp_port (smtp_server is fixed to SmtpHost)
    today,         \* datetime.now().strftime('%Y/%m/%d')
    msg,           \* the MIMEText message, NoMsg before it is built
    mpc,           \* position in send_email
    server,        \* local variable server: id of the session bound, 0 unbound
    events,        \* every call made into smtplib so far, with its outcome
    merr,          \* the exception send_email raised to its caller, "" if none
    warnings,      \* number of logger.warning calls made by send_email
    \* ---- render_email / generate_daily_summary ----
    entry,         \* the function the caller called
    papers,        \* argument papers
    rpc,           \* position in render_email / generate_daily_summary
    idx,           \* number of papers the for loop has rendered
    parts,         \* local list parts
    summary_text,  \* what llm.generate returned
    daily_summary, \* what generate_daily_summary returned
    summary_html,  \* get_summary_html(...)
    html,          \* what render_email returned, NoHtml before
    rerr,          \* the exception render_email raised to its caller
    summaryCalls,  \* number of calls of generate_daily_summary
    llmGets,       \* number of calls of get_llm
    llmCalls,      \* number of calls of llm.generate
    llmRaised,     \* llm.generate raised
    \* ---- get_stars ----
    score,         \* argument score, in hundredths
    stars,         \* what get_stars returned, NoStars before
    \* ---- the response parser of generate_daily_summary ----
    response,      \* a language-model response text
    parsed         \* what the parser made of it, NoParse before

mailVars   == <<sender, receiver, smtp_port, today, msg, mpc, server, events,
                merr, warnings>>
renderVars == <<entry, papers, rpc, idx, parts, summary_text, daily_summary,
                summary_html, html, rerr, summaryCalls, llmGets, llmCalls,
                llmRaised>>
starVars   == <<score, stars>>
parseVars  == <<response, parsed>>
vars       == <<mailVars, renderVars, starVars, parseVars>>

-----------------------------------------------------------------------------
(***************************************************************************)
(* Sequence helpers.                                                       *)
(***************************************************************************)
Range(s) == {s[i] : i \in 1..Len(s)}

\* Python's s[:n] for n >= 0.
Take(s, n) == SubSeq(s, 1, IF n < Len(s) THEN n ELSE Len(s))

\* Python's s[-n:] for n > 0.
LastN(s, n) == SubSeq(s, (IF Len(s) > n THEN Len(s) - n ELSE 0) + 1, Len(s))

\* Sequences over S of length at most n.
SeqUpTo(S, n) == UNION {[1..k -> S] : k \in 0..n}

-----------------------------------------------------------------------------
(***************************************************************************)
(* send_email.  smtplib is the environment: each of its calls returns or   *)
(* raises, and the model records the call in events.  quit ends a session: *)
(* smtplib closes the socket in quit whatever the server answers.          *)
(***************************************************************************)
SmtpHost  == "smtp.example.org"
Senders   == {"bot@example.org", "me@example.org"}
Receivers == {"you@example.org", "me@example.org"}
Ports     == {25, 465, 587}
Dates     == {"2024/01/31", "2024/02/01"}
Password  == "secret"
Body      == "<html>"

NoMsg == [built |-> FALSE]

\* An smtplib call: op on session sess (0: no session came to exist).
Event(op, sess, ok, args) == [op |-> op, sess |-> sess, ok |-> ok, args |-> args]

Opened == {i \in 1..Len(events) :
              events[i].op \in {"SMTP", "SMTP_SSL"} /\ events[i].ok}

\* The id the next session opened gets.
NextSession == Cardinality(Opened) + 1

\* _format_addr: parseaddr splits "name <addr>", formataddr puts the two
\* together again with the name as an encoded header word.
FormatAddr(name, addr) == [name |-> name, addr |-> addr]

InitMailVars ==
    /\ sender \in Senders
    /\ receiver \in Receivers
    /\ smtp_port \in Ports
    /\ today \in Dates
    /\ msg = NoMsg
    /\ mpc = "build"
    /\ server = 0
    /\ events = <<>>
    /\ merr = ""
    /\ warnings = 0

IdleMailVars ==
    /\ sender = "bot@example.org"
    /\ receiver = "you@example.org"
    /\ smtp_port = 25
    /\ today = "2024/01/31"
    /\ msg = NoMsg
    /\ mpc = "idle"
    /\ server = 0
    /\ events = <<>>
    /\ merr = ""
    /\ warnings = 0

\* send_email touches nothing of the other functions.
MailOnly == UNCHANGED <<renderVars, starVars, parseVars>>

\* lines 258-262
BuildMessage ==
    /\ mpc = "build"
    /\ MailOnly
    /\ msg' = [built   |-> TRUE,
               body    |-> Body,
               From    |-> FormatAddr("Github Action", sender),
               To      |-> FormatAddr("You", receiver),
               Subject |-> "Daily arXiv " \o today]
    /\ mpc' = "connect"
    /\ UNCHANGED <<sender, receiver, smtp_port, today, server, events, merr,
                   warnings>>

\* line 265, smtplib.SMTP returns
SmtpConnectOk ==
    /\ mpc = "connect"
    /\ MailOnly
    /\ events' = Append(events,
                        Event("SMTP", NextSession, TRUE, <<SmtpHost, smtp_port>>))
    /\ server' = NextSession
    /\ mpc' = "starttls"
    /\ UNCHANGED <<sender, receiver, smtp_port, today, msg, merr, warnings>>

\* line 265 raises; lines 267-269 catch it and log two warnings
SmtpConnectFail ==
    /\ mpc = "connect"
    /\ MailOnly
    /\ events' = Append(events, Event("SMTP", 0, FALSE, <<SmtpHost, smtp_port>>))
    /\ warnings' = warnings + 2
    /\ mpc' = "ssl"
    /\ UNCHANGED <<sender, receiver, smtp_port, today, msg, server, merr>>

\* line 266, server.starttls() returns
StarttlsOk ==
    /\ mpc = "starttls"
    /\ MailOnly
    /\ events' = Append(events, Event("starttls", server, TRUE, <<>>))
    /\ mpc' = "login"
    /\ UNCHANGED <<sender, receiver, smtp_port, today, msg, server, merr,
                   warnings>>

\* line 266 raises; lines 267-269 catch it.  server stays bound to the plain
\* session until line 270 rebinds it; nothing closes the plain session.
StarttlsFail ==
    /\ mpc = "starttls"
    /\ MailOnly
    /\ events' = Append(events, Event("starttls", server, FALSE, <<>>))
    /\ warnings' = warnings + 2
    /\ mpc' = "ssl"
    /\ UNCHANGED <<sender, receiver, smtp_port, today, msg, server, merr>>

\* line 270, smtplib.SMTP_SSL returns
SslConnectOk ==
    /\ mpc = "ssl"
    /\ MailOnly
    /\ events' = Append(events,
                        Event("SMTP_SSL", NextSession, TRUE, <<SmtpHost, smtp_port>>))
    /\ server' = NextSession
    /\ mpc' = "login"
    /\ UNCHANGED <<sender, receiver, smtp_port, today, msg, merr, warnings>>

\* line 270 raises inside the except block: nothing catches it
SslConnectFail ==
    /\ mpc = "ssl"
    /\ MailOnly
    /\ events' = Append(events,
                        Event("SMTP_SSL", 0, FALSE, <<SmtpHost, smtp_port>>))
    /\ merr' = "SMTP_SSL"
    /\ mpc' = "raised"
    /\ UNCHANGED <<sender, receiver, smtp_port, today, msg, server, warnings>>

\* line 272 returns
LoginOk ==
    /\ mpc = "login"
    /\ MailOnly
    /\ events' = Append(events, Event("login", server, TRUE, <<sender, Password>>))
    /\ mpc' = "sendmail"
    /\ UNCHANGED <<sender, receiver, smtp_port, today, msg, server, merr,
                   warnings>>

\* LoginFail with the exception swallowed: send_email goes on to sendmail.
LoginFail_Swallowed ==
    /\ mpc = "login"
    /\ MailOnly
    /\ events' = Append(events, Event("login", server, FALSE, <<sender, Password>>))
    /\ mpc' = "sendmail"
    /\ UNCHANGED <<sender, receiver, smtp_port, today, msg, server, merr,
                   warnings>>

\* line 272 raises: no handler, lines 273-274 are skipped
LoginFail ==
    /\ mpc = "login"
    /\ MailOnly
    /\ events' = Append(events, Event("login", server, FALSE, <<sender, Password>>))
    /\ merr' = "login"
    /\ mpc' = "raised"
    /\ UNCHANGED <<sender, receiver, smtp_port, today, msg, server, warnings>>

\* Recipients with the sender copied in.
Recipients_SenderToo == <<sender, receiver>>

\* The recipients of line 273: the list [receiver].
Recipients == <<receiver>>

\* line 273 returns
SendmailOk ==
    /\ mpc = "sendmail"
    /\ MailOnly
    /\ events' = Append(events,
                        Event("sendmail", server, TRUE, <<sender, Recipients, msg>>))
    /\ mpc' = "quit"
    /\ UNCHANGED <<sender, receiver, smtp_port, today, msg, server, merr,
                   warnings>>

\* line 273 raises: no handler, line 274 is skipped
SendmailFail ==
    /\ mpc = "sendmail"
    /\ MailOnly
    /\ events' = Append(events,
                        Event("sendmail", server, FALSE, <<sender, Recipients, msg>>))
    /\ merr' = "sendmail"
    /\ mpc' = "raised"
    /\ UNCHANGED <<sender, receiver, smtp_port, today, msg, server, warnings>>

\* line 274, then send_email returns
Quit ==
    /\ mpc = "quit"
    /\ MailOnly
    /\ events' = Append(events, Event("quit", server, TRUE, <<>>))
    /\ mpc' = "returned"
    /\ UNCHANGED <<sender, receiver, smtp_port, today, msg, server, merr,
                   warnings>>

NextMail ==
    \/ BuildMessage
    \/ SmtpConnectOk
    \/ SmtpConnectFail
    \/ StarttlsOk
    \/ StarttlsFail
    \/ SslConnectOk
    \/ SslConnectFail
    \/ LoginOk
    \/ LoginFail
    \/ SendmailOk
    \/ SendmailFail
    \/ Quit

-----------------------------------------------------------------------------
(***************************************************************************)
(* get_stars.  A score is given in hundredths (620 is the float 6.2).      *)
(*                                                                         *)
(* The code computes in IEEE-754 doubles (Python floats), which the model  *)
(* follows exactly for the scores k/100 with 600 < k < 800:                *)
(*   - the argument is the double nearest k/100.  Doubles in [4, 8) are    *)
(*     the multiples of u = 2^-50, and k/100 = (k * 2^48 / 25) * u, so the *)
(*     argument is k/100 + t*u/25 with t the signed distance in 25ths of u *)
(*     to the nearest multiple: r = (k * 2^48) % 25 = (6 * k) % 25, and    *)
(*     t = -r when r <= 12, t = 25 - r otherwise (25 is odd: no ties);     *)
(*   - score - low is exact (both operands lie within a factor two);       *)
(*   - interval = (8 - 6) / 10 is the double nearest 0.2, which is         *)
(*     0.2 * (1 + 2^-54);                                                  *)
(*   - the quotient q = (score - low) / interval is rounded to nearest.    *)
(*     When k - 600 is no multiple of 20 the real quotient is at least     *)
(*     1/20 away from every integer and rounding cannot move its ceiling.  *)
(*     When k - 600 = 20 * j the real quotient is                          *)
(*     (j + t * 2^-50 / 5) / (1 + 2^-54), and the rounded quotient exceeds *)
(*     j exactly when the real one exceeds j plus half the spacing of the  *)
(*     doubles above j, 2^-53 * P with P the largest power of two <= j:    *)
(*     that is  16 * t > 5 * j + 10 * P.                                   *)
(***************************************************************************)
Low  == 6
High == 8

NoStars == <<"unset">>

FullStar == "<span class=\"full-star\">*</span>"
HalfStar == "<span class=\"half-star\">*</span>"

\* Python's s * n for a one-glyph string s, as a sequence of glyphs.
Repeat(s, n) == [i \in 1..n |-> s]

\* The signed rounding error of the double nearest k/100, in 25ths of 2^-50.
LiteralError(k) ==
    LET r == (6 * k) % 25
    IN  IF r <= 12 THEN 0 - r ELSE 25 - r

\* The largest power of two that is at most j, for 1 <= j < 16.
PowerOfTwoBelow(j) == IF j >= 8 THEN 8 ELSE IF j >= 4 THEN 4 ELSE IF j >= 2 THEN 2 ELSE 1

\* line 147-148: math.ceil((score - low) / interval) in double arithmetic,
\* for Low * 100 < k < High * 100.
StarNum(k) ==
    LET d == k - Low * 100
        j == d \div 20
    IN  IF d % 20 # 0
        THEN j + 1
        ELSE IF 16 * LiteralError(k) > 5 * j + 10 * PowerOfTwoBelow(j)
             THEN j + 1
             ELSE j

\* lines 137-151
get_stars(k) ==
    IF k <= Low * 100
    THEN <<>>
    ELSE IF k >= High * 100
    THEN Repeat(FullStar, 5)
    ELSE LET star_num      == StarNum(k)
             full_star_num == star_num \div 2
             half_star_num == star_num - full_star_num * 2
         IN  <<"<div class=\"star-wrapper\">">>
                 \o Repeat(FullStar, full_star_num)
                 \o Repeat(HalfStar, half_star_num)
                 \o <<"</div>">>

\* The scores explored: 0.00, 0.01, ..., ScoreMax / 100.
ScoreMax == 1000

InitStarVars ==
    /\ score \in 0..ScoreMax
    /\ stars = NoStars

IdleStarVars ==
    /\ score = 0
    /\ stars = NoStars

\* A call of get_stars(score).
CallGetStars ==
    /\ stars = NoStars
    /\ stars' = get_stars(score)
    /\ UNCHANGED <<score, mailVars, renderVars, parseVars>>

NextStars == CallGetStars

-----------------------------------------------------------------------------
(***************************************************************************)
(* The response parser of generate_daily_summary (lines 199-219).          *)
(*                                                                         *)
(* A text is a sequence of tokens: the markers "EN:" and "ZH:" (three      *)
(* characters each, which occur in a text only as these markers), the      *)
(* whitespace characters "SP" (a blank) and "NL" (a newline), and other    *)
(* characters.  The two regular expressions are followed as Python's       *)
(* backtracking matcher runs them: leftmost start, \s* greedy, (.+?) lazy, *)
(* re.DOTALL so that . matches a newline too, and no re.MULTILINE so that  *)
(* $ matches at the end of the text and before a newline that ends it.     *)
(***************************************************************************)
Alphabet == {"EN:", "ZH:", "NL", "SP", "e", "z"}

IsSpace(c) == c \in {"SP", "NL"}

\* $ after the first p tokens of s.
AtDollar(s, p) ==
    \/ p = Len(s)
    \/ p = Len(s) - 1 /\ s[Len(s)] = "NL"

\* (?=\nZH:|$) after the first p tokens of s.
LookEn(s, p) ==
    \/ p + 2 <= Len(s) /\ s[p + 1] = "NL" /\ s[p + 2] = "ZH:"
    \/ AtDollar(s, p)

\* $ after the first p tokens of s.
LookZh(s, p) == AtDollar(s, p)

\* The number of whitespace tokens that follow the first p tokens of s.
RECURSIVE WsRun(_, _)
WsRun(s, p) == IF p < Len(s) /\ IsSpace(s[p + 1]) THEN 1 + WsRun(s, p + 1) ELSE 0

\* The end condition of the pattern that starts with marker.
Look(s, marker, p) == IF marker = "EN:" THEN LookEn(s, p) ELSE LookZh(s, p)

\* The ways marker \s* (.+?) lookahead matches with the marker at s[i]:
\* c whitespace tokens skipped, the group ending after q tokens of s.
Matches(s, marker, i) ==
    IF s[i] # marker
    THEN {}
    ELSE {m \in (0..WsRun(s, i)) \X (i + 1..Len(s)) :
             /\ m[2] >= i + m[1] + 1
             /\ Look(s, marker, m[2])}

\* The match the backtracking picks among them: the most whitespace skipped,
\* then the shortest group.
Preferred(ms) ==
    CHOOSE m \in ms : \A o \in ms :
        \/ m[1] > o[1]
        \/ m[1] = o[1] /\ m[2] <= o[2]

\* re.search of the pattern that starts with marker: found, and group(1).
Search(s, marker) ==
    LET starts == {i \in 1..Len(s) : Matches(s, marker, i) # {}}
    IN  IF starts = {}
        THEN [found |-> FALSE, group |-> <<>>]
        ELSE LET i == CHOOSE x \in starts : \A y \in starts : x <= y
                 m == Preferred(Matches(s, marker, i))
             IN  [found |-> TRUE, group |-> SubSeq(s, i + m[1] + 1, m[2])]

\* str.strip()
RECURSIVE Strip(_)
Strip(s) ==
    IF s = <<>> THEN s
    ELSE IF IsSpace(s[1]) THEN Strip(Tail(s))
    ELSE IF IsSpace(s[Len(s)]) THEN Strip(SubSeq(s, 1, Len(s) - 1))
    ELSE s

\* lines 199-219.  The except branch is not reached for a text: re.search
\* and str.strip do not raise on a str.
ParseSummary(text) ==
    LET en_match == Search(text, "EN:")
        zh_match == Search(text, "ZH:")
        en == IF en_match.found THEN Strip(en_match.group) ELSE <<>>
        zh == IF zh_match.found THEN Strip(zh_match.group) ELSE <<>>
    IN  IF en = <<>> /\ zh = <<>>
        THEN [en |-> Strip(text), zh |-> Strip(text)]
        ELSE [en |-> en, zh |-> zh]

\* The longest response explored, in tokens.
MaxResponseLen == 5

NoParse == [en |-> <<"unset">>, zh |-> <<"unset">>]

InitParseVars ==
    /\ response \in SeqUpTo(Alphabet, MaxResponseLen)
    /\ parsed = NoParse

IdleParseVars ==
    /\ response = <<>>
    /\ parsed = NoParse

\* The parser run on a response.
CallParse ==
    /\ parsed = NoParse
    /\ parsed' = ParseSummary(response)
    /\ UNCHANGED <<response, mailVars, renderVars, starVars>>

NextParse == CallParse

-----------------------------------------------------------------------------
(***************************************************************************)
(* render_email and generate_daily_summary.                                *)
(*                                                                         *)
(* A string the code builds from pieces is built here with \o; an HTML     *)
(* block is a record of the values its template is filled with; the        *)
(* content of the email is the sequence of blocks and separators that the  *)
(* code concatenates.  The language-model client is the environment:       *)
(* llm.generate returns one of Responses or raises.  The prompt (lines     *)
(* 161-186) is an argument of that call and decides nothing here; the      *)
(* time.sleep of line 248 changes no state.                                *)
(***************************************************************************)
AuthorRoster == <<"A", "B", "C", "D", "E", "F", "G", "H", "I", "J">>
AffilRoster  == <<"U1", "U2", "U3", "U4", "U5", "U6", "U7", "U8", "U9", "U10">>
Digits       == <<"0", "1", "2", "3", "4", "5", "6", "7", "8", "9">>
ScoreSamples == <<550, 620, 710, 900>>

\* The longest author list, affiliation list and paper list explored.
MaxAuthors      == 7
MaxAffiliations == 7
MaxPapers       == 2

\* p.affiliations: None, or a list.
NoAffiliations == [isNone |-> TRUE, list |-> <<>>]
Affiliations(l) == [isNone |-> FALSE, list |-> l]

\* p.tldr: a str, or a dict with en and zh.
TldrStr(s) == [kind |-> "str", text |-> s, en |-> "", zh |-> ""]
TldrDict(en, zh) == [kind |-> "dict", text |-> "", en |-> en, zh |-> zh]

\* A paper with n authors and no affiliations field.
AuthorPaper(n) ==
    [arxiv_id     |-> "2401.0" \o Digits[n + 1],
     title        |-> "Title " \o Digits[n + 1],
     authors      |-> [i \in 1..n |-> [name |-> AuthorRoster[i]]],
     affiliations |-> NoAffiliations,
     score        |-> ScoreSamples[(n % 4) + 1],
     tldr         |-> IF n % 2 = 0 THEN TldrStr("tldr") ELSE TldrDict("tl", "dr"),
     pdf_url      |-> "https://arxiv.org/pdf/2401.0" \o Digits[n + 1],
     code_url     |-> IF n % 3 = 0 THEN "" ELSE "https://github.com/x/y"]

\* A paper with two authors and m affiliations.
AffiliationPaper(m) ==
    [arxiv_id     |-> "2402.0" \o Digits[m + 1],
     title        |-> "Title " \o Digits[m + 1],
     authors      |-> [i \in 1..2 |-> [name |-> AuthorRoster[i]]],
     affiliations |-> Affiliations(Take(AffilRoster, m)),
     score        |-> ScoreSamples[(m % 4) + 1],
     tldr         |-> TldrStr("tldr"),
     pdf_url      |-> "https://arxiv.org/pdf/2402.0" \o Digits[m + 1],
     code_url     |-> ""]

PaperPool == {AuthorPaper(n) : n \in 0..MaxAuthors}
                 \cup {AffiliationPaper(m) : m \in 0..MaxAffiliations}

\* What llm.generate may return: the format asked for, the two markers on
\* one line, a text without markers, and the empty text.
Responses ==
    {<<"EN:", "SP", "e", "NL", "ZH:", "SP", "z">>,
     <<"EN:", "SP", "e", "SP", "ZH:", "SP", "z">>,
     <<"e", "SP", "z">>,
     <<>>}

\* sep.join(list) for a list of str.
RECURSIVE JoinStr(_, _)
JoinStr(list, sep) ==
    IF list = <<>> THEN ""
    ELSE IF Len(list) = 1 THEN list[1]
    ELSE list[1] \o sep \o JoinStr(Tail(list), sep)

\* sep.join(list) for a list of HTML blocks.
RECURSIVE JoinBlocks(_, _)
JoinBlocks(list, sep) ==
    IF list = <<>> THEN <<>>
    ELSE IF Len(list) = 1 THEN <<list[1]>>
    ELSE <<list[1], sep>> \o JoinBlocks(Tail(list), sep)

Html(text) == [kind |-> "html", text |-> text]

\* lines 15-51 and framework.replace('__CONTENT__', content)
Framework(content) ==
    <<Html("<html><head><style>...</style></head><body><div>")>>
        \o content
        \o <<Html("</div><br><br><div>To unsubscribe, remove your email in your Github Action setting.</div></body></html>")>>

\* lines 53-63
get_empty_html == [kind |-> "empty", text |-> "No Papers Today. Take a Rest!"]

\* lines 65-86
get_summary_html(summary_en, summary_zh) ==
    [kind |-> "summary", summary_en |-> summary_en, summary_zh |-> summary_zh]

\* lines 88-135
get_block_html(title, authors, rate, arxiv_id, abstract, pdf_url, code_url, affiliations) ==
    [kind         |-> "paper",
     title        |-> title,
     authors      |-> authors,
     affiliations |-> affiliations,
     rate         |-> rate,
     arxiv_id     |-> arxiv_id,
     tldr_html    |-> IF abstract.kind = "dict"
                      THEN "<strong>EN:</strong> " \o abstract.en
                               \o "<br><strong>ZH:</strong> " \o abstract.zh
                      ELSE abstract.text,
     pdf_url      |-> pdf_url,
     code         |-> IF code_url # ""
                      THEN "<a href=\"" \o code_url \o "\">Code</a>"
                      ELSE ""]

\* AuthorsString with the other truncation policy: the first five, then "...".
AuthorsString_FirstFive(p) ==
    LET author_list == [i \in 1..Len(p.authors) |-> p.authors[i].name]
    IN  IF Len(author_list) <= 5
        THEN JoinStr(author_list, ", ")
        ELSE JoinStr(Take(author_list, 5) \o <<"...">>, ", ")

\* lines 233-239
AuthorsString(p) ==
    LET author_list == [i \in 1..Len(p.authors) |-> p.authors[i].name]
        num_authors == Len(author_list)
    IN  IF num_authors <= 5
        THEN JoinStr(author_list, ", ")
        ELSE JoinStr(Take(author_list, 3) \o <<"...">> \o LastN(author_list, 2), ", ")

\* lines 240-246
AffiliationsString(p) ==
    IF ~p.affiliations.isNone
    THEN LET affiliations == JoinStr(Take(p.affiliations.list, 5), ", ")
         IN  IF Len(p.affiliations.list) > 5
             THEN affiliations \o ", ..."
             ELSE affiliations
    ELSE "Unknown Affiliation"

\* lines 232-247: the block of one paper
PaperBlock(p) ==
    get_block_html(p.title, AuthorsString(p), get_stars(p.score), p.arxiv_id,
                   p.tldr, p.pdf_url, p.code_url, AffiliationsString(p))

NoHtml       == <<>>
NoSummary    == [en |-> <<"unset">>, zh |-> <<"unset">>]
NoSummaryHtml == [kind |-> "unset"]

InitRenderVars ==
    /\ entry \in {"render_email", "generate_daily_summary"}
    /\ papers \in SeqUpTo(PaperPool, MaxPapers)
    /\ rpc = (IF entry = "render_email" THEN "render" ELSE "summary")
    /\ idx = 0
    /\ parts = <<>>
    /\ summary_text = <<>>
    /\ daily_summary = NoSummary
    /\ summary_html = NoSummaryHtml
    /\ html = NoHtml
    /\ rerr = ""
    /\ summaryCalls = 0
    /\ llmGets = 0
    /\ llmCalls = 0
    /\ llmRaised = FALSE

IdleRenderVars ==
    /\ entry = "none"
    /\ papers = <<>>
    /\ rpc = "idle"
    /\ idx = 0
    /\ parts = <<>>
    /\ summary_text = <<>>
    /\ daily_summary = NoSummary
    /\ summary_html = NoSummaryHtml
    /\ html = NoHtml
    /\ rerr = ""
    /\ summaryCalls = 0
    /\ llmGets = 0
    /\ llmCalls = 0
    /\ llmRaised = FALSE

\* render_email and generate_daily_summary touch nothing of the others.
RenderOnly == UNCHANGED <<mailVars, starVars, parseVars>>

\* RenderEmpty without the early return: the summary is asked for.
RenderEmpty_NoEarlyReturn ==
    /\ rpc = "render"
    /\ RenderOnly
    /\ Len(papers) = 0
    /\ rpc' = "summary"
    /\ UNCHANGED <<entry, papers, idx, parts, summary_text, daily_summary,
                   summary_html, html, rerr, summaryCalls, llmGets, llmCalls,
                   llmRaised>>

\* lines 223-225: no papers
RenderEmpty ==
    /\ rpc = "render"
    /\ RenderOnly
    /\ Len(papers) = 0
    /\ html' = Framework(<<get_empty_html>>)
    /\ rpc' = "returned"
    /\ UNCHANGED <<entry, papers, idx, parts, summary_text, daily_summary,
                   summary_html, rerr, summaryCalls, llmGets, llmCalls, llmRaised>>

\* line 228: the call of generate_daily_summary
RenderCallSummary ==
    /\ rpc = "render"
    /\ RenderOnly
    /\ Len(papers) # 0
    /\ rpc' = "summary"
    /\ UNCHANGED <<entry, papers, idx, parts, summary_text, daily_summary,
                   summary_html, html, rerr, summaryCalls, llmGets, llmCalls,
                   llmRaised>>

\* lines 156-157: generate_daily_summary of no papers
SummaryEmpty ==
    /\ rpc = "summary"
    /\ RenderOnly
    /\ Len(papers) = 0
    /\ summaryCalls' = summaryCalls + 1
    /\ daily_summary' = [en |-> <<"No papers today.">>, zh |-> <<"(zh) No papers today.">>]
    /\ rpc' = "summary_returned"
    /\ UNCHANGED <<entry, papers, idx, parts, summary_text, summary_html, html,
                   rerr, llmGets, llmCalls, llmRaised>>

\* lines 159-188: the prompt is built and get_llm() is called
SummaryGetLlm ==
    /\ rpc = "summary"
    /\ RenderOnly
    /\ Len(papers) # 0
    /\ summaryCalls' = summaryCalls + 1
    /\ llmGets' = llmGets + 1
    /\ rpc' = "generate"
    /\ UNCHANGED <<entry, papers, idx, parts, summary_text, daily_summary,
                   summary_html, html, rerr, llmCalls, llmRaised>>

\* lines 189-197, llm.generate returns
LlmGenerateOk ==
    /\ rpc = "generate"
    /\ RenderOnly
    /\ llmCalls' = llmCalls + 1
    /\ summary_text' \in Responses
    /\ rpc' = "parse"
    /\ UNCHANGED <<entry, papers, idx, parts, daily_summary, summary_html, html,
                   rerr, summaryCalls, llmGets, llmRaised>>

\* lines 189-197, llm.generate raises: the call stands outside the try of
\* line 201, and render_email has no handler around line 228 either
LlmGenerateRaise ==
    /\ rpc = "generate"
    /\ RenderOnly
    /\ llmCalls' = llmCalls + 1
    /\ llmRaised' = TRUE
    /\ rerr' = "llm"
    /\ rpc' = "raised"
    /\ UNCHANGED <<entry, papers, idx, parts, summary_text, daily_summary,
                   summary_html, html, summaryCalls, llmGets>>

\* lines 199-219
ParseResponse ==
    /\ rpc = "parse"
    /\ RenderOnly
    /\ daily_summary' = ParseSummary(summary_text)
    /\ rpc' = "summary_returned"
    /\ UNCHANGED <<entry, papers, idx, parts, summary_text, summary_html, html,
                   rerr, summaryCalls, llmGets, llmCalls, llmRaised>>

\* line 229
RenderSummaryHtml ==
    /\ rpc = "summary_returned"
    /\ RenderOnly
    /\ entry = "render_email"
    /\ summary_html' = get_summary_html(daily_summary.en, daily_summary.zh)
    /\ rpc' = "loop"
    /\ UNCHANGED <<entry, papers, idx, parts, summary_text, daily_summary, html,
                   rerr, summaryCalls, llmGets, llmCalls, llmRaised>>

\* lines 231-248: one round of the for loop
RenderPaper ==
    /\ rpc = "loop"
    /\ RenderOnly
    /\ idx < Len(papers)
    /\ parts' = Append(parts, PaperBlock(papers[idx + 1]))
    /\ idx' = idx + 1
    /\ UNCHANGED <<entry, papers, rpc, summary_text, daily_summary, summary_html,
                   html, rerr, summaryCalls, llmGets, llmCalls, llmRaised>>

\* Content with the summary block after the paper blocks.
Content_SummaryLast ==
    JoinBlocks(parts, Html("</br><br>"))
        \o <<Html("</br>"), summary_html, Html("<br>")>>

\* line 250
Content ==
    <<summary_html, Html("<br>")>>
        \o JoinBlocks(parts, Html("</br><br>"))
        \o <<Html("</br>")>>

\* lines 250-251: the loop is over
RenderJoin ==
    /\ rpc = "loop"
    /\ RenderOnly
    /\ idx = Len(papers)
    /\ html' = Framework(Content)
    /\ rpc' = "returned"
    /\ UNCHANGED <<entry, papers, idx, parts, summary_text, daily_summary,
                   summary_html, rerr, summaryCalls, llmGets, llmCalls, llmRaised>>

NextRender ==
    \/ RenderEmpty
    \/ RenderCallSummary
    \/ SummaryEmpty
    \/ SummaryGetLlm
    \/ LlmGenerateOk
    \/ LlmGenerateRaise
    \/ ParseResponse
    \/ RenderSummaryHtml
    \/ RenderPaper
    \/ RenderJoin

-----------------------------------------------------------------------------
(***************************************************************************)
(* The specifications, one per function.                                   *)
(***************************************************************************)
InitMail   == InitMailVars /\ IdleRenderVars /\ IdleStarVars /\ IdleParseVars
InitRender == IdleMailVars /\ InitRenderVars /\ IdleStarVars /\ IdleParseVars
InitStars  == IdleMailVars /\ IdleRenderVars /\ InitStarVars /\ IdleParseVars
InitParse  == IdleMailVars /\ IdleRenderVars /\ IdleStarVars /\ InitParseVars

SpecMail   == InitMail /\ [][NextMail]_vars
SpecRender == InitRender /\ [][NextRender]_vars
SpecStars  == InitStars /\ [][NextStars]_vars
SpecParse  == InitParse /\ [][NextParse]_vars

-----------------------------------------------------------------------------
(***************************************************************************)
(* The properties.                                                         *)
(***************************************************************************)
Count(s, x) == Cardinality({i \in 1..Len(s) : s[i] = x})

\* Some smtplib call op ended ok / not ok.
Happened(op, ok) == \E i \in 1..Len(events) : events[i].op = op /\ events[i].ok = ok

CallsOf(op) == {i \in 1..Len(events) : events[i].op = op}

\* The calls made on session sid after it was opened, in order.
CallsOn(sid) ==
    LET made == SelectSeq(events, LAMBDA e : e.sess = sid /\ e.op \notin {"SMTP", "SMTP_SSL"})
    IN  [i \in 1..Len(made) |-> made[i].op]

MailFinished == mpc \in {"returned", "raised"}

C2_NoRetryBeyondFallback ==
    /\ Cardinality(CallsOf("SMTP")) <= 1
    /\ Cardinality(CallsOf("SMTP_SSL")) <= 1
    /\ Cardinality(CallsOf("login")) <= 1
    /\ Cardinality(CallsOf("sendmail")) <= 1
    /\ \A i \in CallsOf("SMTP_SSL") :
          /\ i > 1
          /\ events[i - 1].op \in {"SMTP", "starttls"}
          /\ ~events[i - 1].ok
    /\ \A i \in 1..Len(events) :
          (events[i].op \in {"SMTP_SSL", "login", "sendmail"} /\ ~events[i].ok)
          => /\ i = Len(events)
             /\ mpc = "raised"
             /\ merr = events[i].op

C2_Witness ==
    /\ mpc = "raised"
    /\ Happened("starttls", FALSE)
    /\ Happened("SMTP_SSL", TRUE)
    /\ Happened("login", FALSE)

\* C10: when send_email finishes, by returning or by raising, every SMTP
\* session it opened has been closed with quit.
C10_EverySessionClosed ==
    MailFinished
    => \A i \in Opened :
          \E j \in CallsOf("quit") : j > i /\ events[j].sess = events[i].sess

\* C3: for a non-empty paper list a failure of the language-model call is
\* caught and degraded to a summary: it does not end generate_daily_summary
\* or render_email with an exception.
C3_LlmFailureDegrades ==
    (Len(papers) > 0 /\ llmRaised) => (rpc # "raised" /\ rerr = "")

\* C4: render_email of an empty paper list returns the outer HTML shell around
\* the fixed "no papers today" block, and neither generate_daily_summary, nor
\* the language-model client, nor SMTP is touched.
C4_EmptyListNoNetwork ==
    (entry = "render_email" /\ Len(papers) = 0)
    => /\ rpc \in {"render", "returned"}
       /\ rpc = "returned" =>
             /\ Len(html) = 3
             /\ html[1].kind = "html"
             /\ html[2] = [kind |-> "empty", text |-> "No Papers Today. Take a Rest!"]
             /\ html[3].kind = "html"
       /\ summaryCalls = 0
       /\ llmGets = 0
       /\ llmCalls = 0
       /\ events = <<>>

C4_Witness ==
    /\ entry = "render_email"
    /\ Len(papers) = 0
    /\ rpc = "returned"
    /\ html # NoHtml

\* The content of a rendered document: what stands inside the shell.
Inner(doc) == SubSeq(doc, 2, Len(doc) - 1)

\* C6: for a non-empty list of n papers render_email obtains the summary once,
\* and the content is the summary block, holding the summary's en and zh
\* texts as they are, before all paper blocks, then exactly n paper blocks,
\* one per paper in the order of the list.
C6_SummaryThenPapersInOrder ==
    (entry = "render_email" /\ rpc = "returned" /\ Len(papers) > 0)
    => LET content == Inner(html)
           blocks  == SelectSeq(content, LAMBDA b : b.kind = "paper")
       IN  /\ summaryCalls = 1
           /\ llmCalls = 1
           /\ content[1].kind = "summary"
           /\ content[1].summary_en = daily_summary.en
           /\ content[1].summary_zh = daily_summary.zh
           /\ \A i \in 2..Len(content) : content[i].kind # "summary"
           /\ Len(blocks) = Len(papers)
           /\ \A i \in 1..Len(blocks) :
                 /\ blocks[i].arxiv_id = papers[i].arxiv_id
                 /\ blocks[i].title = papers[i].title

C6_Witness ==
    /\ entry = "render_email"
    /\ rpc = "returned"
    /\ Len(papers) = 2
    /\ papers[1].arxiv_id # papers[2].arxiv_id
    /\ daily_summary = [en |-> <<"e">>, zh |-> <<"z">>]

\* The author string the policy asks for, written out.
ExpectedAuthors(a) ==
    LET n == Len(a)
    IN  CASE n = 0 -> ""
          [] n = 1 -> a[1]
          [] n = 2 -> a[1] \o ", " \o a[2]
          [] n = 3 -> a[1] \o ", " \o a[2] \o ", " \o a[3]
          [] n = 4 -> a[1] \o ", " \o a[2] \o ", " \o a[3] \o ", " \o a[4]
          [] n = 5 -> a[1] \o ", " \o a[2] \o ", " \o a[3] \o ", " \o a[4]
                          \o ", " \o a[5]
          [] OTHER -> a[1] \o ", " \o a[2] \o ", " \o a[3] \o ", " \o "..."
                          \o ", " \o a[n - 1] \o ", " \o a[n]

NamesOf(p) == [i \in 1..Len(p.authors) |-> p.authors[i].name]

\* C7: the author string of every rendered paper is all names joined by ", "
\* when there are at most five, and the first three, "...", and the last two
\* otherwise; the authors A, B, C, D, E, F render as "A, B, C, ..., E, F".
C7_AuthorTruncation ==
    \A i \in 1..Len(parts) :
        /\ parts[i].authors = ExpectedAuthors(NamesOf(papers[i]))
        /\ NamesOf(papers[i]) = <<"A", "B", "C", "D", "E", "F">>
              => parts[i].authors = "A, B, C, ..., E, F"

C7_Witness ==
    \E i \in 1..Len(parts) :
        /\ NamesOf(papers[i]) = <<"A", "B", "C", "D", "E", "F">>
        /\ parts[i].authors = "A, B, C, ..., E, F"

\* The affiliation string of m affiliations, written out for m >= 1.
ExpectedAffiliations(l) ==
    LET m == Len(l)
    IN  CASE m = 1 -> l[1]
          [] m = 2 -> l[1] \o ", " \o l[2]
          [] m = 3 -> l[1] \o ", " \o l[2] \o ", " \o l[3]
          [] m = 4 -> l[1] \o ", " \o l[2] \o ", " \o l[3] \o ", " \o l[4]
          [] m = 5 -> l[1] \o ", " \o l[2] \o ", " \o l[3] \o ", " \o l[4]
                          \o ", " \o l[5]
          [] OTHER -> l[1] \o ", " \o l[2] \o ", " \o l[3] \o ", " \o l[4]
                          \o ", " \o l[5] \o ", ..."

\* C8: the affiliation string of every rendered paper is its first five
\* affiliations joined by ", ", followed by ", ..." exactly when there are
\* more than five; a paper with no affiliations, the field absent or an
\* empty sequence, renders "Unknown Affiliation".
C8_AffiliationString ==
    \A i \in 1..Len(parts) :
        parts[i].affiliations =
            IF papers[i].affiliations.isNone \/ papers[i].affiliations.list = <<>>
            THEN "Unknown Affiliation"
            ELSE ExpectedAffiliations(papers[i].affiliations.list)

\* The indices of a marker in a text.
MarkerAt(s, marker) == {i \in 1..Len(s) : s[i] = marker}

Least(S) == CHOOSE x \in S : \A y \in S : x <= y

\* C9: for a response that holds both markers, en is the trimmed text from
\* the first "EN:" to the next "ZH:" and zh the trimmed text from "ZH:" to the
\* end, so that en holds neither the "ZH:" marker nor the text after it.
\* (Responses whose two texts are both empty take the raw-text fallback and
\* are left out.)
C9_ParseSplitsAtMarkers ==
    LET en_at  == Least(MarkerAt(response, "EN:"))
        zh_all == MarkerAt(response, "ZH:")
        zh_nxt == Least({j \in zh_all : j > en_at})
        en     == Strip(SubSeq(response, en_at + 1, zh_nxt - 1))
        zh     == Strip(SubSeq(response, Least(zh_all) + 1, Len(response)))
    IN  ( /\ parsed # NoParse
          /\ MarkerAt(response, "EN:") # {}
          /\ \E j \in zh_all : j > en_at
          /\ en # <<>> \/ zh # <<>> )
        => /\ parsed.en = en
           /\ parsed.zh = zh
           /\ "ZH:" \notin Range(parsed.en)

\* C5: get_stars gives no glyph for a score of at most 6, five full stars and
\* no half star for a score of at least 8, and in between full stars followed
\* by at most one half star with 2 * full + half = ceil((score - 6) / 0.2),
\* half in {0, 1} and full <= 5.
C5_StarsMatchReference ==
    stars # NoStars
    => LET full == Count(stars, FullStar)
           half == Count(stars, HalfStar)
       IN  /\ score <= 600 => stars = <<>>
           /\ score >= 800 => (full = 5 /\ half = 0)
           /\ (score > 600 /\ score < 800)
                 => /\ 2 * full + half = (score - 600 + 19) \div 20
                    /\ half \in {0, 1}
                    /\ full <= 5
                    /\ \A i \in 1..Len(stars) : \A j \in 1..Len(stars) :
                          (stars[i] = FullStar /\ stars[j] = HalfStar) => i < j

=============================================================================
